---- MODULE Spec2Model ----
(***************************************************************************)
(* The chat widget of Modern College Pune: the App component (conversation *)
(* state, the exchange with /api/chat, connection status, persistence in   *)
(* localStorage) and the part of ChatDialog that selects a role and calls  *)
(* App's handlers.                                                         *)
(*                                                                         *)
(* JavaScript values are written as follows.  A string the program works   *)
(* on character by character (message text) is a tuple of one-character    *)
(* strings; a fixed literal of the program is a tuple holding that literal *)
(* (no whitespace at either end).  null is "null", undefined is            *)
(* "undefined", and a key an object does not have is "absent".  An ISO     *)
(* timestamp is written as the millisecond count it denotes.  A value of   *)
(* localStorage is [kind, val]: kind "absent" (getItem gives null), "json" *)
(* (the JSON text of val), "undefined" (the nine characters undefined,     *)
(* which is no JSON text), "garbled" (any other text that is no JSON) or   *)
(* "unreadable" (getItem throws).                                          *)
(*                                                                         *)
(* The operations are modelled at the level of the handlers: the handlers  *)
(* of ChatDialog exist while the dialog is mounted (isOpen), and           *)
(* handleSendMessage takes no lock of its own, so a second send may start  *)
(* while an exchange is in flight.                                         *)
(*                                                                         *)
(* Spec and FairSpec are the conversation over a localStorage that starts  *)
(* empty and accepts every write.  StoreSpec is the page over a            *)
(* localStorage that may hold anything and may refuse writes, with the     *)
(* setters App hands to ChatDialog and with no message sent.               *)
(***************************************************************************)
EXTENDS Integers, Sequences, FiniteSets, TLC

VARIABLES
    isOpen,            \* App: useState(false)
    messages,          \* App: useLocalStorage('chatMessages', []) value
    inputValue,        \* App: useState('')
    userRole,          \* App: useLocalStorage('userRole', null) value
    chatSettings,      \* App: useLocalStorage('chatSettings', {...}) value
    isLoading,         \* useChatAPI: useState(false)
    connectionStatus,  \* useChatAPI: useState('connected')
    role,              \* ChatDialog: useState(null)
    showQuickReplies,  \* ChatDialog: useState(true)
    store,             \* window.localStorage, one field per key
    storageFull,       \* whether localStorage.setItem throws (quota exceeded)
    inflight,          \* the sendMessage calls that have not settled
    now,               \* the clock read by new Date() and by setTimeout
    nsent,             \* number of fetch calls issued so far
    settled,           \* number of sendMessage calls that have settled
    notified           \* the toasts raised by the last step

vars == <<isOpen, messages, inputValue, userRole, chatSettings, isLoading,
          connectionStatus, role, showQuickReplies, store, storageFull,
          inflight, now, nsent, settled, notified>>

----------------------------------------------------------------------------
(* Bounds of the model *)

MaxSends == 2
TickMs == 30000
MaxNow == 30000

(* Program constants *)

TimeoutMs == 30000

Null == "null"
Undefined == "undefined"
Absent == "absent"

Roles == {"student", "teacher", "parent", "general"}

\* the role the model's user picks in the dialog
RoleInputs == {"parent"}

WelcomeText == <<"Welcome to Modern College Pune!">>
TimedOutText == <<"Request timed out. Please try again.">>
NoInternetText == <<"No internet connection. Please check your network.">>
FailedToConnectText == <<"Failed to connect to server. Please try again.">>
SorryText == <<"Sorry, I encountered an error. Please try again later.">>
FailedToFetchText == <<"Failed to fetch">>
UnexpectedTokenText == <<"Unexpected token < in JSON at position 0">>

\* the texts the model's user types: '', ' ', and '  Hello  ' in short
TypedTexts == { <<>>, <<" ">>, <<" ", "h", " ">> }

PresetQuestions(r) ==
    CASE r = "student" -> <<"How can I apply for admission?">>
      [] r = "teacher" -> <<"How can teachers access staff login or portal?">>
      [] r = "parent"  -> <<"How can parents track student performance?">>
      [] r = "general" -> <<"What is the official website of Modern College Pune?">>
      [] OTHER -> <<>>

\* what the remote may answer: status lines, and 2xx bodies
StatusLines == { [status |-> 200, statusText |-> "OK"],
                 [status |-> 500, statusText |-> "Internal Server Error"] }

Payloads == { [response |-> <<"Hi!">>, detected_role |-> "student", confidence |-> "0.9"],
              [response |-> <<"Hi!">>, detected_role |-> "parent", confidence |-> "0"],
              [response |-> <<"Hi!">>, detected_role |-> Undefined, confidence |-> Undefined] }

----------------------------------------------------------------------------
(* String.prototype.trim *)

IsSpace(c) == c = " "

RECURSIVE TrimStart(_)
TrimStart(s) ==
    IF s = <<>> THEN <<>>
    ELSE IF IsSpace(Head(s)) THEN TrimStart(Tail(s)) ELSE s

RECURSIVE TrimEnd(_)
TrimEnd(s) ==
    IF s = <<>> THEN <<>>
    ELSE IF IsSpace(s[Len(s)]) THEN TrimEnd(SubSeq(s, 1, Len(s) - 1)) ELSE s

Trim(s) == TrimEnd(TrimStart(s))

\* JavaScript's truthiness: of a number, null or undefined, and of a string
Falsy(v) == v \in {Null, Undefined, Absent, "0"}

FalsyText(s) == s = <<>>

\* a || b
OrElse(v, d) == IF Falsy(v) THEN d ELSE v

OrElseText(s, d) == IF FalsyText(s) THEN d ELSE s

----------------------------------------------------------------------------
(* Message objects *)

Message(text, sender, timestamp, mrole, confidence, isError) ==
    [text |-> text, sender |-> sender, timestamp |-> timestamp,
     role |-> mrole, confidence |-> confidence, isError |-> isError]

UserMessage(text, t) == Message(text, "user", t, Absent, Absent, Absent)

WelcomeMessage(t) == Message(WelcomeText, "bot", t, Absent, Absent, Absent)

BotMessage(botResponse) ==
    Message(botResponse.text, "bot", botResponse.timestamp,
            botResponse.role, botResponse.confidence, Absent)

ErrorMessage(errText, t) ==
    Message(OrElseText(errText, SorryText), "bot", t, Absent, Absent, "true")

----------------------------------------------------------------------------
(* useLocalStorage *)

\* the argument of a setter: a value, or an updater prev => [...prev, elem]
Value(v) == [isFn |-> FALSE, val |-> v]
Updater(m) == [isFn |-> TRUE, elem |-> m]

\* React's setState
SetState(prev, arg) == IF arg.isFn THEN Append(prev, arg.elem) ELSE arg.val

\* a serialisation that also leaves out the keys whose value is null
StringifyMessageDropsNull(m) ==
    [m EXCEPT !.role = IF @ \in {Undefined, Null} THEN Absent ELSE @,
              !.confidence = IF @ \in {Undefined, Null} THEN Absent ELSE @]

\* JSON.stringify of one Message: a key whose value is undefined is left out
StringifyMessage(m) ==
    [m EXCEPT !.role = IF @ = Undefined THEN Absent ELSE @,
              !.confidence = IF @ = Undefined THEN Absent ELSE @]

\* localStorage.setItem(key, JSON.stringify(newValue)) for the Timeline:
\* JSON.stringify of a function is undefined, which setItem stores as text
StringifyMessages(arg) ==
    IF arg.isFn THEN [kind |-> "undefined", val |-> <<>>]
    ELSE [kind |-> "json",
          val |-> [i \in 1..Len(arg.val) |-> StringifyMessage(arg.val[i])]]

\* useState(() => { item ? JSON.parse(item) : defaultValue }) with its catch
Load(item, defaultValue) ==
    IF item.kind = "json" THEN item.val ELSE defaultValue

AbsentItem(v) == [kind |-> "absent", val |-> v]

JsonItem(v) == [kind |-> "json", val |-> v]

\* a text that JSON.parse rejects, and an entry whose getItem throws
GarbledItem(v) == [kind |-> "garbled", val |-> v]

UnreadableItem(v) == [kind |-> "unreadable", val |-> v]

\* the default of useLocalStorage('chatSettings', {...})
DefaultSettings ==
    [notifications |-> "true", soundEnabled |-> "true", theme |-> "light"]

\* localStorage.setItem(key, text) inside setStoredValue's try: when it
\* throws, the catch block logs a warning and the entry stays as it was
SetItem(key, item) == IF storageFull THEN store ELSE [store EXCEPT ![key] = item]

\* setStoredValue of useLocalStorage('chatMessages', []):
\* setValue(newValue), then setItem(key, JSON.stringify(newValue))
SetMessages(arg) ==
    /\ messages' = SetState(messages, arg)
    /\ store' = SetItem("chatMessages", StringifyMessages(arg))

----------------------------------------------------------------------------
(* Toasts: the severity, then the parts of the text *)

Toast(severity, text) == <<severity>> \o text

----------------------------------------------------------------------------
(* Initial state: the first render of App over an empty localStorage.      *)

InitialStore ==
    [chatMessages |-> AbsentItem(<<>>), userRole |-> AbsentItem(Null),
     chatSettings |-> AbsentItem(DefaultSettings)]

\* the state of App, useChatAPI and ChatDialog right after a page load
Mounted(st) ==
    /\ isOpen = FALSE
    /\ messages = Load(st.chatMessages, <<>>)
    /\ inputValue = <<>>
    /\ userRole = Load(st.userRole, Null)
    /\ chatSettings = Load(st.chatSettings, DefaultSettings)
    /\ isLoading = FALSE
    /\ connectionStatus = "connected"
    /\ role = Null
    /\ showQuickReplies = TRUE

Init ==
    /\ store = InitialStore
    /\ storageFull = FALSE
    /\ Mounted(store)
    /\ inflight = {}
    /\ now = 0
    /\ nsent = 0
    /\ settled = 0
    /\ notified = <<>>

----------------------------------------------------------------------------
(* App: the dialog *)

\* a toggle that greets on every opening
ToggleChatDialogAlwaysGreets ==
    /\ isOpen' = ~isOpen
    /\ IF ~isOpen
       THEN SetMessages(Value(Append(messages, WelcomeMessage(now))))
       ELSE UNCHANGED <<messages, store>>
    /\ role' = Null
    /\ showQuickReplies' = TRUE
    /\ UNCHANGED <<chatSettings, storageFull>>
    /\ notified' = <<>>
    /\ UNCHANGED <<inputValue, userRole, isLoading, connectionStatus, inflight,
                   now, nsent, settled>>

\* a toggle that starts the Timeline over with the greeting on every opening
ToggleChatDialogStartsOver ==
    /\ isOpen' = ~isOpen
    /\ IF ~isOpen
       THEN SetMessages(Value(<<WelcomeMessage(now)>>))
       ELSE UNCHANGED <<messages, store>>
    /\ role' = Null
    /\ showQuickReplies' = TRUE
    /\ UNCHANGED <<chatSettings, storageFull>>
    /\ notified' = <<>>
    /\ UNCHANGED <<inputValue, userRole, isLoading, connectionStatus, inflight,
                   now, nsent, settled>>

\* toggleChatDialog, and the mount or unmount of ChatDialog it causes
ToggleChatDialog ==
    /\ isOpen' = ~isOpen
    /\ IF ~isOpen /\ Len(messages) = 0
       THEN SetMessages(Value(<<WelcomeMessage(now)>>))
       ELSE UNCHANGED <<messages, store>>
    /\ role' = Null
    /\ showQuickReplies' = TRUE
    /\ UNCHANGED <<chatSettings, storageFull>>
    /\ notified' = <<>>
    /\ UNCHANGED <<inputValue, userRole, isLoading, connectionStatus, inflight,
                   now, nsent, settled>>

\* handleEscapeKey and handleClickOutside
DismissDialog ==
    /\ isOpen
    /\ isOpen' = FALSE
    /\ role' = Null
    /\ showQuickReplies' = TRUE
    /\ UNCHANGED <<chatSettings, storageFull>>
    /\ notified' = <<>>
    /\ UNCHANGED <<messages, store, inputValue, userRole, isLoading,
                   connectionStatus, inflight, now, nsent, settled>>

\* handleInputChange
HandleInputChange(value) ==
    /\ isOpen
    /\ inputValue' = value
    /\ UNCHANGED <<chatSettings, storageFull>>
    /\ notified' = <<>>
    /\ UNCHANGED <<isOpen, messages, store, userRole, isLoading, connectionStatus,
                   role, showQuickReplies, inflight, now, nsent, settled>>

\* ChatDialog.handleRoleSelect, and "Change Role" (setRole(null))
HandleRoleSelect(selectedRole) ==
    /\ isOpen
    /\ role = Null
    /\ role' = selectedRole
    /\ UNCHANGED <<chatSettings, storageFull>>
    /\ notified' = << Toast("success", <<"Role selected: ", selectedRole>>) >>
    /\ UNCHANGED <<isOpen, messages, store, inputValue, userRole, isLoading,
                   connectionStatus, showQuickReplies, inflight, now,
                   nsent, settled>>

ChangeRole ==
    /\ isOpen
    /\ role # Null
    /\ showQuickReplies
    /\ role' = Null
    /\ UNCHANGED <<chatSettings, storageFull>>
    /\ notified' = <<>>
    /\ UNCHANGED <<isOpen, messages, store, inputValue, userRole, isLoading,
                   connectionStatus, showQuickReplies, inflight, now,
                   nsent, settled>>

\* a clear that empties the Timeline through an updater, prev => []
ClearChatHistoryByUpdater ==
    /\ isOpen
    /\ messages' = <<>>
    /\ store' = [store EXCEPT !.chatMessages = [kind |-> "undefined", val |-> <<>>]]
    /\ UNCHANGED <<chatSettings, storageFull>>
    /\ notified' = << Toast("info", <<"Chat history cleared">>) >>
    /\ UNCHANGED <<isOpen, inputValue, userRole, isLoading, connectionStatus,
                   role, showQuickReplies, inflight, now, nsent, settled>>

\* clearChatHistory
ClearChatHistory ==
    /\ isOpen
    /\ SetMessages(Value(<<>>))
    /\ UNCHANGED <<chatSettings, storageFull>>
    /\ notified' = << Toast("info", <<"Chat history cleared">>) >>
    /\ UNCHANGED <<isOpen, inputValue, userRole, isLoading, connectionStatus,
                   role, showQuickReplies, inflight, now, nsent, settled>>

\* the object exportChatHistory serialises
ChatData == [messages |-> messages, exportDate |-> now, userRole |-> userRole]

\* JSON.stringify(chatData, null, 2), the content of the downloaded file
StringifyChatData(chatData) ==
    [chatData EXCEPT
       !.messages = [i \in 1..Len(@) |-> StringifyMessage(@[i])]]

\* exportChatHistory: the file is handed to the browser, the toast is raised
ExportChatHistory ==
    /\ isOpen
    /\ notified' = << Toast("success", <<"Chat history exported!">>) >>
    /\ UNCHANGED <<isOpen, messages, store, inputValue, userRole, chatSettings,
                   storageFull, isLoading, connectionStatus, role,
                   showQuickReplies, inflight, now, nsent, settled>>

----------------------------------------------------------------------------
(* useChatAPI.sendMessage and App.handleSendMessage *)

\* a call that posts the text as it was given
ExchangeUntrimmed(id, message, r) ==
    [id |-> id, phase |-> "fetch", message |-> message, role |-> r,
     body |-> [message |-> message, role |-> r, timestamp |-> now],
     deadline |-> now + TimeoutMs]

\* a call that has not settled: where it waits ("fetch": at await fetch, the
\* abort timer armed; "body": at await response.json(), the timer cleared),
\* the text and role it was called with, the body it posted, and when its
\* abort timer is due
Exchange(id, message, r) ==
    [id |-> id, phase |-> "fetch", message |-> message, role |-> r,
     body |-> [message |-> Trim(message), role |-> r, timestamp |-> now],
     deadline |-> now + TimeoutMs]

\* sendMessage without its setConnectionStatus('connecting')
BeginExchangeStatusKept(message, r) ==
    /\ isLoading' = TRUE
    /\ UNCHANGED connectionStatus
    /\ inflight' = inflight \cup {Exchange(nsent + 1, message, r)}
    /\ nsent' = nsent + 1

\* sendMessage up to its await of fetch
BeginExchange(message, r) ==
    /\ isLoading' = TRUE
    /\ connectionStatus' = "connecting"
    /\ inflight' = inflight \cup {Exchange(nsent + 1, message, r)}
    /\ nsent' = nsent + 1

\* a catch block that passes the Error thrown for a status on before it
\* asks navigator.onLine
ClassifyStatusFirst(error, onLine) ==
    IF error.name = "AbortError" THEN TimedOutText
    ELSE IF error.name = "Error" THEN OrElseText(error.message, FailedToConnectText)
    ELSE IF ~onLine THEN NoInternetText
    ELSE OrElseText(error.message, FailedToConnectText)

\* a catch block that asks navigator.onLine before it asks for AbortError
ClassifyOfflineFirst(error, onLine) ==
    IF ~onLine THEN NoInternetText
    ELSE IF error.name = "AbortError" THEN TimedOutText
    ELSE OrElseText(error.message, FailedToConnectText)

\* the message of the Error that sendMessage's catch block throws;
\* onLine is navigator.onLine as read there
Classify(error, onLine) ==
    IF error.name = "AbortError" THEN TimedOutText
    ELSE IF ~onLine THEN NoInternetText
    ELSE OrElseText(error.message, FailedToConnectText)

\* handleSendMessage without its guard on the trimmed text
HandleSendMessageUnguarded(customMessage) ==
    LET messageToSend == IF customMessage.defined THEN customMessage.text
                         ELSE inputValue
    IN  /\ nsent < MaxSends
        /\ now + TimeoutMs <= MaxNow
        /\ SetMessages(Updater(UserMessage(messageToSend, now)))
        /\ inputValue' = <<>>
        /\ BeginExchange(messageToSend, userRole)
        /\ UNCHANGED <<chatSettings, storageFull>>
        /\ notified' = <<>>
        /\ UNCHANGED <<isOpen, userRole, now, settled>>

\* handleSendMessage(customMessage) up to its await of sendMessage;
\* customMessage is [defined, text]
HandleSendMessage(customMessage) ==
    LET messageToSend == IF customMessage.defined THEN customMessage.text
                         ELSE inputValue
    IN  /\ IF FalsyText(Trim(messageToSend))
           THEN UNCHANGED <<messages, store, inputValue, isLoading,
                            connectionStatus, inflight, nsent>>
           ELSE /\ nsent < MaxSends
                /\ now + TimeoutMs <= MaxNow
                /\ SetMessages(Updater(UserMessage(messageToSend, now)))
                /\ inputValue' = <<>>
                /\ BeginExchange(messageToSend, userRole)
        /\ UNCHANGED <<chatSettings, storageFull>>
        /\ notified' = <<>>
        /\ UNCHANGED <<isOpen, userRole, now, settled>>

\* a failure that puts the error Message in the place of the last entry
SettleFailureRollsBack(e, error, onLine) ==
    LET thrown == Classify(error, onLine)
    IN  /\ connectionStatus' = "error"
        /\ isLoading' = FALSE
        /\ inflight' = inflight \ {e}
        /\ settled' = settled + 1
        /\ messages' = Append(SubSeq(messages, 1, Len(messages) - 1),
                              ErrorMessage(thrown, now))
        /\ store' = [store EXCEPT !.chatMessages = [kind |-> "undefined", val |-> <<>>]]
        /\ UNCHANGED <<chatSettings, storageFull>>
        /\ notified' = << Toast("error", thrown) >>
        /\ UNCHANGED <<isOpen, inputValue, userRole, role, showQuickReplies,
                       now, nsent>>

\* the rest of sendMessage and of handleSendMessage when the call throws
SettleFailure(e, error, onLine) ==
    LET thrown == Classify(error, onLine)
    IN  /\ connectionStatus' = "error"
        /\ isLoading' = FALSE
        /\ inflight' = inflight \ {e}
        /\ settled' = settled + 1
        /\ SetMessages(Updater(ErrorMessage(thrown, now)))
        /\ UNCHANGED <<chatSettings, storageFull>>
        /\ notified' = << Toast("error", thrown) >>
        /\ UNCHANGED <<isOpen, inputValue, userRole, role, showQuickReplies,
                       now, nsent>>

\* a success that appends the reply to the Timeline as it was when its own
\* message was sent, [...messages, botMessage] over the handler's snapshot
SettleSuccessOverSnapshot(e, data) ==
    LET botResponse == [text |-> data.response, role |-> data.detected_role,
                        confidence |-> OrElse(data.confidence, Null),
                        timestamp |-> now]
        own == {i \in 1..Len(messages) :
                  /\ messages[i].sender = "user"
                  /\ messages[i].text = e.message}
        upTo == IF own = {} THEN 0 ELSE CHOOSE i \in own : \A j \in own : i <= j
    IN  /\ connectionStatus' = "connected"
        /\ isLoading' = FALSE
        /\ inflight' = inflight \ {e}
        /\ settled' = settled + 1
        /\ SetMessages(Value(Append(SubSeq(messages, 1, upTo),
                                    BotMessage(botResponse))))
        /\ UNCHANGED <<chatSettings, storageFull>>
        /\ notified' = IF ~Falsy(botResponse.role) /\ botResponse.role # e.role
                       THEN << Toast("info", <<"Detected context: ", botResponse.role>>) >>
                       ELSE <<>>
        /\ UNCHANGED <<isOpen, inputValue, userRole, role, showQuickReplies,
                       now, nsent>>

\* a success whose reply is stamped with the time of the request
SettleSuccessStampedAtSend(e, data) ==
    LET botResponse == [text |-> data.response, role |-> data.detected_role,
                        confidence |-> OrElse(data.confidence, Null),
                        timestamp |-> e.body.timestamp]
    IN  /\ connectionStatus' = "connected"
        /\ isLoading' = FALSE
        /\ inflight' = inflight \ {e}
        /\ settled' = settled + 1
        /\ SetMessages(Updater(BotMessage(botResponse)))
        /\ UNCHANGED <<chatSettings, storageFull>>
        /\ notified' = IF ~Falsy(botResponse.role) /\ botResponse.role # e.role
                       THEN << Toast("info", <<"Detected context: ", botResponse.role>>) >>
                       ELSE <<>>
        /\ UNCHANGED <<isOpen, inputValue, userRole, role, showQuickReplies,
                       now, nsent>>

\* a success whose later statements throw into handleSendMessage's catch
\* block: the reply and an error Message are both appended
SettleSuccessThenError(e, data) ==
    LET botResponse == [text |-> data.response, role |-> data.detected_role,
                        confidence |-> OrElse(data.confidence, Null),
                        timestamp |-> now]
    IN  /\ connectionStatus' = "connected"
        /\ isLoading' = FALSE
        /\ inflight' = inflight \ {e}
        /\ settled' = settled + 1
        /\ messages' = messages \o <<BotMessage(botResponse),
                                     ErrorMessage(<<>>, now)>>
        /\ store' = [store EXCEPT !.chatMessages = [kind |-> "undefined", val |-> <<>>]]
        /\ UNCHANGED <<chatSettings, storageFull>>
        /\ notified' = << Toast("error", <<>>) >>
        /\ UNCHANGED <<isOpen, inputValue, userRole, role, showQuickReplies,
                       now, nsent>>

\* the rest of sendMessage and of handleSendMessage when response.json()
\* gives data
SettleSuccess(e, data) ==
    LET botResponse == [text |-> data.response, role |-> data.detected_role,
                        confidence |-> OrElse(data.confidence, Null),
                        timestamp |-> now]
    IN  /\ connectionStatus' = "connected"
        /\ isLoading' = FALSE
        /\ inflight' = inflight \ {e}
        /\ settled' = settled + 1
        /\ SetMessages(Updater(BotMessage(botResponse)))
        /\ UNCHANGED <<chatSettings, storageFull>>
        /\ notified' = IF ~Falsy(botResponse.role) /\ botResponse.role # e.role
                       THEN << Toast("info", <<"Detected context: ", botResponse.role>>) >>
                       ELSE <<>>
        /\ UNCHANGED <<isOpen, inputValue, userRole, role, showQuickReplies,
                       now, nsent>>

\* fetch resolved with an ok status: clearTimeout, then await response.json()
AwaitBody(e) ==
    /\ inflight' = (inflight \ {e}) \cup {[e EXCEPT !.phase = "body"]}
    /\ UNCHANGED <<chatSettings, storageFull>>
    /\ notified' = <<>>
    /\ UNCHANGED <<isOpen, messages, store, inputValue, userRole, isLoading,
                   connectionStatus, role, showQuickReplies, now, nsent,
                   settled>>

\* response.ok
IsOk(status) == 200 <= status /\ status <= 299

----------------------------------------------------------------------------
(* ChatDialog: the three ways to send *)

Given(text) == [defined |-> TRUE, text |-> text]
NotGiven == [defined |-> FALSE, text |-> <<>>]

\* the Send button: onSendMessage(inputValue, role)
ClickSend ==
    /\ isOpen
    /\ HandleSendMessage(Given(inputValue))
    /\ UNCHANGED <<role, showQuickReplies>>

\* Enter in the input: handleKeyPress calls handleSendMessage()
HandleKeyPress ==
    /\ isOpen
    /\ HandleSendMessage(NotGiven)
    /\ UNCHANGED <<role, showQuickReplies>>

\* handlePresetClick(question): onSendMessage(question, role)
HandlePresetClick ==
    /\ isOpen
    /\ ~Falsy(role)
    /\ showQuickReplies
    /\ HandleSendMessage(Given(PresetQuestions(role)))
    /\ showQuickReplies' = FALSE
    /\ UNCHANGED role

----------------------------------------------------------------------------
(* The remote, the network, the abort timer, the clock, the page *)

\* fetch resolves with a status line; a status that is not ok throws
FetchResolves(e, line, onLine) ==
    /\ e \in inflight
    /\ e.phase = "fetch"
    /\ IF IsOk(line.status)
       THEN AwaitBody(e)
       ELSE SettleFailure(e, [name |-> "Error",
                              message |-> <<"Server error: ", ToString(line.status),
                                            " ", line.statusText>>], onLine)

\* fetch rejects: the request could not be made or the connection broke
FetchRejects(e, onLine) ==
    /\ e \in inflight
    /\ e.phase = "fetch"
    /\ SettleFailure(e, [name |-> "TypeError", message |-> FailedToFetchText],
                     onLine)

\* setTimeout(() => controller.abort(), 30000): fetch rejects with AbortError
AbortTimerFires(e, onLine) ==
    /\ e \in inflight
    /\ e.phase = "fetch"
    /\ now >= e.deadline
    /\ SettleFailure(e, [name |-> "AbortError",
                         message |-> <<"The user aborted a request.">>], onLine)

\* response.json() resolves
BodyParses(e, data) ==
    /\ e \in inflight
    /\ e.phase = "body"
    /\ SettleSuccess(e, data)

\* response.json() rejects: the body is no JSON
BodyIsNoJson(e, onLine) ==
    /\ e \in inflight
    /\ e.phase = "body"
    /\ SettleFailure(e, [name |-> "SyntaxError", message |-> UnexpectedTokenText],
                     onLine)

\* an offline handler that also moves the connection status
HandleOfflineSetsError ==
    /\ notified' = << Toast("error", <<"Connection lost. Please check your internet.">>) >>
    /\ connectionStatus' = "error"
    /\ UNCHANGED <<isOpen, messages, store, inputValue, userRole, chatSettings,
                   storageFull, isLoading, role, showQuickReplies,
                   inflight, now, nsent, settled>>

\* window's 'online' and 'offline' events: handleOnline, handleOffline
HandleOnline ==
    /\ notified' = << Toast("success", <<"Connection restored!">>) >>
    /\ UNCHANGED <<isOpen, messages, store, inputValue, userRole, chatSettings,
                   storageFull, isLoading, connectionStatus, role,
                   showQuickReplies, inflight, now, nsent, settled>>

HandleOffline ==
    /\ notified' = << Toast("error", <<"Connection lost. Please check your internet.">>) >>
    /\ UNCHANGED <<isOpen, messages, store, inputValue, userRole, chatSettings,
                   storageFull, isLoading, connectionStatus, role,
                   showQuickReplies, inflight, now, nsent, settled>>

Tick ==
    /\ now + TickMs <= MaxNow
    /\ now' = now + TickMs
    /\ UNCHANGED <<chatSettings, storageFull>>
    /\ notified' = <<>>
    /\ UNCHANGED <<isOpen, messages, store, inputValue, userRole, isLoading,
                   connectionStatus, role, showQuickReplies, inflight, nsent,
                   settled>>

\* a page load that reads the three keys in one try block: when one of them
\* cannot be read or parsed, all three get their defaults
ReloadAllOrNothing ==
    LET sound == \A k \in DOMAIN store : store[k].kind \in {"json", "absent"}
    IN  /\ isOpen' = FALSE
        /\ messages' = IF sound THEN Load(store.chatMessages, <<>>) ELSE <<>>
        /\ inputValue' = <<>>
        /\ userRole' = IF sound THEN Load(store.userRole, Null) ELSE Null
        /\ chatSettings' = IF sound THEN Load(store.chatSettings, DefaultSettings)
                           ELSE DefaultSettings
        /\ isLoading' = FALSE
        /\ connectionStatus' = "connected"
        /\ role' = Null
        /\ showQuickReplies' = TRUE
        /\ inflight' = {}
        /\ notified' = <<>>
        /\ UNCHANGED <<store, storageFull, now, nsent, settled>>

\* the page is loaded again: every component is built anew over localStorage,
\* and the calls in flight are gone with the old page
Reload ==
    /\ isOpen' = FALSE
    /\ messages' = Load(store.chatMessages, <<>>)
    /\ inputValue' = <<>>
    /\ userRole' = Load(store.userRole, Null)
    /\ chatSettings' = Load(store.chatSettings, DefaultSettings)
    /\ isLoading' = FALSE
    /\ connectionStatus' = "connected"
    /\ role' = Null
    /\ showQuickReplies' = TRUE
    /\ inflight' = {}
    /\ notified' = <<>>
    /\ UNCHANGED <<store, storageFull, now, nsent, settled>>

----------------------------------------------------------------------------
(* The setters App hands to ChatDialog, and the storage around the page *)

\* what onRoleChange and onSettingsChange may be called with
RoleValues == {"parent", Null}

SettingsValues ==
    { [notifications |-> Absent, soundEnabled |-> Absent, theme |-> "dark"],
      [notifications |-> "false", soundEnabled |-> Absent, theme |-> Absent],
      [notifications |-> "false", soundEnabled |-> "false", theme |-> "dark"] }

\* onRoleChange={setUserRole}
SetUserRole(newValue) ==
    /\ isOpen
    /\ userRole' = newValue
    /\ store' = SetItem("userRole", JsonItem(newValue))
    /\ notified' = <<>>
    /\ UNCHANGED <<isOpen, messages, inputValue, chatSettings, storageFull,
                   isLoading, connectionStatus, role, showQuickReplies,
                   inflight, now, nsent, settled>>

\* onSettingsChange={setChatSettings}
SetChatSettings(newValue) ==
    /\ isOpen
    /\ chatSettings' = newValue
    /\ store' = SetItem("chatSettings", JsonItem(newValue))
    /\ notified' = <<>>
    /\ UNCHANGED <<isOpen, messages, inputValue, userRole, storageFull,
                   isLoading, connectionStatus, role, showQuickReplies,
                   inflight, now, nsent, settled>>

\* the quota of localStorage is used up by the site, and freed again
StorageFills ==
    /\ ~storageFull
    /\ storageFull' = TRUE
    /\ notified' = <<>>
    /\ UNCHANGED <<isOpen, messages, store, inputValue, userRole, chatSettings,
                   isLoading, connectionStatus, role, showQuickReplies,
                   inflight, now, nsent, settled>>

StorageFrees ==
    /\ storageFull
    /\ storageFull' = FALSE
    /\ notified' = <<>>
    /\ UNCHANGED <<isOpen, messages, store, inputValue, userRole, chatSettings,
                   isLoading, connectionStatus, role, showQuickReplies,
                   inflight, now, nsent, settled>>

\* what a page may find in localStorage: nothing, what an earlier page
\* wrote, a text that is no JSON, or an entry it cannot read
StoredMessages ==
    { AbsentItem(<<>>), JsonItem(<<WelcomeMessage(0)>>),
      [kind |-> "undefined", val |-> <<>>], GarbledItem(<<>>),
      UnreadableItem(<<>>) }

StoredRoles == { AbsentItem(Null), JsonItem("student"), GarbledItem(Null) }

StoredSettings ==
    { AbsentItem(DefaultSettings),
      JsonItem([notifications |-> "true", soundEnabled |-> "false", theme |-> "dark"]),
      GarbledItem(DefaultSettings), UnreadableItem(DefaultSettings) }

\* the first render of App over any such localStorage
StoreInit ==
    /\ store \in [chatMessages : StoredMessages, userRole : StoredRoles,
                   chatSettings : StoredSettings]
    /\ storageFull = FALSE
    /\ Mounted(store)
    /\ inflight = {}
    /\ now = 0
    /\ nsent = 0
    /\ settled = 0
    /\ notified = <<>>

\* the page and its storage, with no message sent
StoreNext ==
    \/ ToggleChatDialog
    \/ DismissDialog
    \/ ClearChatHistory
    \/ ExportChatHistory
    \/ \E newValue \in RoleValues : SetUserRole(newValue)
    \/ \E newValue \in SettingsValues : SetChatSettings(newValue)
    \/ StorageFills
    \/ StorageFrees
    \/ Reload

StoreSpec == StoreInit /\ [][StoreNext]_vars

----------------------------------------------------------------------------

Next ==
    \/ ToggleChatDialog
    \/ DismissDialog
    \/ \E value \in TypedTexts : HandleInputChange(value)
    \/ \E r \in RoleInputs : HandleRoleSelect(r)
    \/ ChangeRole
    \/ ClearChatHistory
    \/ ExportChatHistory
    \/ ClickSend
    \/ HandleKeyPress
    \/ HandlePresetClick
    \/ \E e \in inflight : \E line \in StatusLines : \E onLine \in BOOLEAN :
           FetchResolves(e, line, onLine)
    \/ \E e \in inflight : \E onLine \in BOOLEAN : FetchRejects(e, onLine)
    \/ \E e \in inflight : \E onLine \in BOOLEAN : AbortTimerFires(e, onLine)
    \/ \E e \in inflight : \E data \in Payloads : BodyParses(e, data)
    \/ \E e \in inflight : \E onLine \in BOOLEAN : BodyIsNoJson(e, onLine)
    \/ HandleOnline
    \/ HandleOffline
    \/ Tick
    \/ Reload

\* the ids of the sendMessage calls
Ids == 1..MaxSends

AbortTimer(id) ==
    \E e \in inflight : \E onLine \in BOOLEAN : e.id = id /\ AbortTimerFires(e, onLine)

\* What the browser schedules: time passes, and a timer that is due and not
\* cleared runs.  Nothing makes the remote answer or the user act.
Fairness ==
    /\ WF_vars(Tick)
    /\ \A id \in Ids : WF_vars(AbortTimer(id))

FairSpec == Init /\ [][Next]_vars /\ Fairness

Spec == Init /\ [][Next]_vars

----------------------------------------------------------------------------
(* Vocabulary of the properties *)

\* a step in which handleSendMessage got past its guard and called fetch
SendStep == nsent' = nsent + 1

\* a step in which a sendMessage call resolved or threw
SettleStep == settled' = settled + 1

\* a step appends exactly the entry m to the Timeline
Appends(m) == messages' = Append(messages, m)

AppendsOne ==
    /\ Len(messages') = Len(messages) + 1
    /\ SubSeq(messages', 1, Len(messages)) = messages

Last(s) == s[Len(s)]

IsUserMessage(m) == m.sender = "user"
IsErrorMessage(m) == m.sender = "bot" /\ m.isError = "true"
IsWelcomeMessage(m) == m.sender = "bot" /\ m.text = WelcomeText
IsReplyMessage(m) == m.sender = "bot" /\ m.isError = Absent /\ m.text # WelcomeText

\* what JSON.parse(JSON.stringify(messages)) gives
Decoded(ms) == [i \in 1..Len(ms) |-> StringifyMessage(ms[i])]

----------------------------------------------------------------------------
(* C1: a send whose text does not trim to empty appends exactly one user   *)
(* Message, holding that text, in the step that starts the exchange, and   *)
(* the step that settles an exchange, by success or by failure, keeps      *)
(* every entry the Timeline held: the user Message is not rolled back.     *)

C1_UserMessageCommitted ==
    [][ /\ SendStep =>
             /\ AppendsOne
             /\ IsUserMessage(Last(messages'))
             /\ \E e \in inflight' \ inflight :
                    /\ Last(messages').text = e.message
                    /\ Trim(e.message) # <<>>
        /\ SettleStep =>
             /\ AppendsOne
             /\ ~IsUserMessage(Last(messages'))
      ]_vars

\* a failed exchange has settled and the user Message is still there
C1_Witness ==
    /\ Len(messages) >= 2
    /\ IsUserMessage(messages[Len(messages) - 1])
    /\ IsErrorMessage(Last(messages))
    /\ connectionStatus = "error"

----------------------------------------------------------------------------
(* C2: after each change sendUserMessage makes to the Timeline (the user   *)
(* Message, then the reply or the error Message), the value stored under   *)
(* chatMessages decodes to the Timeline in memory.                         *)
(* The code does not do this: each of these changes hands setStoredValue   *)
(* an updater function, and JSON.stringify of a function is undefined.     *)

C2_PersistedAfterSend ==
    [][ (SendStep \/ SettleStep) => Load(store'.chatMessages, <<>>) = Decoded(messages') ]_vars

----------------------------------------------------------------------------
(* C3: a send whose text trims to empty changes nothing: the Timeline, the *)
(* exchanges in flight, the busy indicator, the connection status, the     *)
(* stored values and the pending input stay as they were; and so no user   *)
(* Message with such a text is ever in the Timeline or posted.             *)

NothingSent ==
    UNCHANGED <<messages, inflight, nsent, isLoading, connectionStatus, store,
                inputValue, userRole, isOpen, settled>>

C3_EmptySendIsNoOp ==
    /\ [][ /\ \A t \in TypedTexts :
                (Trim(t) = <<>> /\ HandleSendMessage(Given(t))) => NothingSent
           /\ (Trim(inputValue) = <<>> /\ HandleSendMessage(NotGiven)) => NothingSent
         ]_vars
    /\ [](\A i \in 1..Len(messages) :
             IsUserMessage(messages[i]) => Trim(messages[i].text) # <<>>)
    /\ [](\A e \in inflight : e.body.message # <<>>)

\* the input holds only whitespace, a send has been possible, nothing was sent
C3_Witness ==
    /\ isOpen
    /\ inputValue = <<" ">>
    /\ nsent = 0
    /\ inflight = {}
    /\ Len(messages) = 1

----------------------------------------------------------------------------
(* C4: a send issues exactly one fetch, no step other than a send issues   *)
(* one, and the step that settles an exchange appends exactly one entry:   *)
(* a reply built from the remote's payload when the status becomes         *)
(* connected, an error Message holding the failure's description when it   *)
(* becomes error.                                                          *)

FailureTexts ==
    { TimedOutText, NoInternetText, FailedToFetchText, UnexpectedTokenText }
    \cup { <<"Server error: ", ToString(l.status), " ", l.statusText>> : l \in StatusLines }

C4_OneExchangeOneOutcome ==
    [][ /\ nsent' \in {nsent, nsent + 1}
        /\ SendStep =>
             /\ \E e \in inflight' : e.id = nsent' /\ inflight' = inflight \cup {e}
             /\ Cardinality(inflight') = Cardinality(inflight) + 1
             /\ IsUserMessage(Last(messages'))
             /\ ~SettleStep
        /\ ~SendStep => inflight' \subseteq inflight \/ \E e \in inflight :
                            inflight' = (inflight \ {e}) \cup {[e EXCEPT !.phase = "body"]}
        /\ SettleStep =>
             /\ \E e \in inflight : inflight' = inflight \ {e}
             /\ AppendsOne
             /\ \/ /\ connectionStatus' = "connected"
                   /\ IsReplyMessage(Last(messages'))
                   /\ \E data \in Payloads : Last(messages').text = data.response
                \/ /\ connectionStatus' = "error"
                   /\ IsErrorMessage(Last(messages'))
                   /\ Last(messages').text \in FailureTexts
      ]_vars

\* two exchanges have settled, one with a reply and one with an error
C4_Witness ==
    /\ settled = 2
    /\ inflight = {}
    /\ \E i, j \in 1..Len(messages) :
          IsReplyMessage(messages[i]) /\ IsErrorMessage(messages[j])

----------------------------------------------------------------------------
(* C5: an exchange the remote never answers does not wait for ever: its    *)
(* abort timer fires once 30 s have passed, and the step in which it fires *)
(* is a Timeout: the busy indicator becomes false, the status error, and   *)
(* exactly one entry, the error Message "Request timed out", is appended,  *)
(* whatever navigator.onLine says.                                         *)

Waiting(id) == \E e \in inflight : e.id = id /\ e.phase = "fetch"

C5_TimeoutSettles ==
    /\ [][ \A e \in inflight : \A onLine \in BOOLEAN :
             AbortTimerFires(e, onLine) =>
               /\ now >= e.body.timestamp + TimeoutMs
               /\ ~isLoading'
               /\ connectionStatus' = "error"
               /\ Appends(ErrorMessage(TimedOutText, now))
               /\ inflight' = inflight \ {e}
         ]_vars
    /\ \A id \in Ids : Waiting(id) ~> ~Waiting(id)

\* an exchange has timed out
C5_Witness ==
    /\ settled >= 1
    /\ ~isLoading
    /\ messages # <<>>
    /\ Last(messages) = ErrorMessage(TimedOutText, TimeoutMs)

----------------------------------------------------------------------------
(* C6: whatever the remote does, a busy indicator that is true becomes     *)
(* false again.                                                            *)
(* The code does not do this when the status line arrives and the body     *)
(* never ends: the abort timer is cleared before response.json() is        *)
(* awaited, so nothing settles the call.                                   *)

C6_BusyClears == isLoading ~> ~isLoading

----------------------------------------------------------------------------
(* C7: the connection status is connected at first; it becomes connecting  *)
(* in the steps that invoke an exchange and in no other; and the step that *)
(* settles an exchange leaves it connected if that step appended a reply   *)
(* and error if it appended an error Message.                              *)

C7_ConnectionStatus ==
    /\ connectionStatus = "connected"
    /\ [][ /\ SendStep => connectionStatus' = "connecting"
           /\ (connectionStatus' = "connecting" /\ connectionStatus # "connecting")
                 => SendStep
           /\ SettleStep =>
                /\ connectionStatus' \in {"connected", "error"}
                /\ connectionStatus' = "connected" <=> IsReplyMessage(Last(messages'))
                /\ connectionStatus' = "error" <=> IsErrorMessage(Last(messages'))
         ]_vars

\* a second exchange was invoked after the first one failed, and it succeeded
C7_Witness ==
    /\ settled = 2
    /\ connectionStatus = "connected"
    /\ \E i \in 1..Len(messages) : IsErrorMessage(messages[i])
    /\ IsReplyMessage(Last(messages))

----------------------------------------------------------------------------
(* C8: the role posted with a message is the role selected in the dialog   *)
(* when it is sent, and null when none is selected.                        *)
(* The code does not do this: handleSendMessage ignores the role the       *)
(* dialog passes and posts App's userRole, which the dialog never sets.    *)

C8_PostedRoleIsSelectedRole ==
    [][ SendStep => \A e \in inflight' \ inflight : e.body.role = role ]_vars

----------------------------------------------------------------------------
(* C9: the step that opens the dialog over an empty Timeline makes the     *)
(* Timeline the one welcome Message and stores it under chatMessages; the  *)
(* step that opens it over a Timeline that is not empty leaves the         *)
(* Timeline as it is; and the Timeline never holds two welcome Messages.   *)

WelcomeCount(ms) == Cardinality({i \in 1..Len(ms) : IsWelcomeMessage(ms[i])})

OpenStep == ~isOpen /\ isOpen'

C9_OneWelcome ==
    /\ [][ OpenStep =>
             IF messages = <<>>
             THEN /\ messages' = <<WelcomeMessage(now)>>
                  /\ store'.chatMessages.kind = "json"
                  /\ Load(store'.chatMessages, <<>>) = messages'
             ELSE messages' = messages
         ]_vars
    /\ [](WelcomeCount(messages) <= 1)

\* the dialog was opened again over a Timeline that holds the welcome Message
\* and a conversation
C9_Witness ==
    /\ isOpen
    /\ settled = 2
    /\ inflight = {}
    /\ notified = <<>>
    /\ Len(messages) = 5
    /\ WelcomeCount(messages) = 1

----------------------------------------------------------------------------
(* C10: the step that clears the history of a Timeline that is not empty   *)
(* leaves the Timeline empty and the value stored under chatMessages the   *)
(* JSON text of the empty sequence.                                        *)

ClearedToast == << Toast("info", <<"Chat history cleared">>) >>

C10_ClearEmptiesBoth ==
    [][ (ClearChatHistory /\ messages # <<>>) =>
          /\ Len(messages') = 0
          /\ store'.chatMessages = JsonItem(<<>>)
      ]_vars

\* a conversation has just been cleared
C10_Witness ==
    /\ notified = ClearedToast
    /\ nsent >= 1
    /\ Len(messages) = 0
    /\ store.chatMessages = JsonItem(<<>>)

----------------------------------------------------------------------------
(* C11: the Timeline is append-only.  In every step of the running page    *)
(* other than clearChatHistory (opening, closing, typing, selecting or     *)
(* changing the role, sending, an exchange settling by success or by       *)
(* failure, exporting, time passing) the Timeline before the step is a     *)
(* prefix of the Timeline after it.  A page load builds a new Timeline     *)
(* from localStorage and is no operation on the old one.                   *)

IsPrefix(s, t) == Len(s) <= Len(t) /\ SubSeq(t, 1, Len(s)) = s

C11_AppendOnly ==
    [][ (~ClearChatHistory /\ ~Reload) => IsPrefix(messages, messages') ]_vars

\* after an opening, a send, its outcome and a role selection the Timeline
\* is the greeting, the user Message, the outcome
C11_Witness ==
    /\ isOpen
    /\ role = "parent"
    /\ settled = 1
    /\ nsent = 1
    /\ Len(messages) = 3
    /\ IsWelcomeMessage(messages[1])
    /\ IsUserMessage(messages[2])
    /\ notified # <<>>

----------------------------------------------------------------------------
(* C12: the step in which an exchange succeeds raises the toast "Detected  *)
(* context" naming the reply's detected role if and only if the reply has  *)
(* a detected role and it differs from the role selected in the dialog,    *)
(* and that step changes neither the selected role nor App's userRole.     *)
(* The code does not do this: it compares the detected role with App's     *)
(* userRole, which the selection never sets, so a reply that detects the   *)
(* very role the user selected raises the toast.                           *)

ContextToast(r) == Toast("info", <<"Detected context: ", r>>)

Raised(toast) == \E i \in 1..Len(notified') : notified'[i] = toast

C12_ContextDetected ==
    [][ \A e \in inflight : \A data \in Payloads :
          BodyParses(e, data) =>
            /\ ~Falsy(data.detected_role) =>
                  (Raised(ContextToast(data.detected_role))
                     <=> data.detected_role # role)
            /\ Falsy(data.detected_role) => notified' = <<>>
            /\ role' = role
            /\ userRole' = userRole
      ]_vars

----------------------------------------------------------------------------
(* C13: in the step that sends a text, the user Message appended to the    *)
(* Timeline holds the text exactly as it was given, with its whitespace,   *)
(* and the message field of the request posted in that step is that text   *)
(* without its leading and trailing whitespace.                            *)

\* the request posted by this step
Posted == (CHOOSE e \in inflight' \ inflight : TRUE).body

SentAs(t) ==
    /\ Last(messages').text = t
    /\ Posted.message = Trim(t)
    /\ Trim(Posted.message) = Posted.message

C13_RawKeptTrimmedSent ==
    [][ /\ \A t \in TypedTexts \cup {PresetQuestions(r) : r \in Roles} :
              (HandleSendMessage(Given(t)) /\ SendStep) => SentAs(t)
        /\ (HandleSendMessage(NotGiven) /\ SendStep) => SentAs(inputValue)
      ]_vars

\* '  h  ' is in the Timeline with its spaces and was posted as 'h'
C13_Witness ==
    /\ messages # <<>>
    /\ IsUserMessage(Last(messages))
    /\ Last(messages).text = <<" ", "h", " ">>
    /\ \E e \in inflight : e.body.message = <<"h">>

----------------------------------------------------------------------------
(* C14: a role that has been selected stays selected, and is what a page   *)
(* load reads back from the key userRole, until the user changes it: no    *)
(* step other than "Change Role" takes a selected role away, closing the   *)
(* dialog and loading the page included.                                   *)
(* The code does not do this: the selection is the state of ChatDialog,    *)
(* which is unmounted when the dialog closes, and nothing writes userRole. *)

C14_RoleDurable ==
    /\ [][ (role # Null /\ ~ChangeRole) => role' = role ]_vars
    /\ [](role # Null => Load(store.userRole, Null) = role)

----------------------------------------------------------------------------
(* C15: the file exportChatHistory produces, put back into localStorage    *)
(* (its messages under chatMessages, its userRole under userRole) and      *)
(* loaded by a page, gives the Timeline and the userRole the App held when *)
(* it exported: the same entries in the same order, every field of every   *)
(* entry reading the same value.                                           *)

\* what reading the keys of m gives: text, sender and timestamp are always
\* there, and a key the object does not have reads undefined
Reads(m) ==
    [m EXCEPT !.role = IF @ = Absent THEN Undefined ELSE @,
              !.confidence = IF @ = Absent THEN Undefined ELSE @,
              !.isError = IF @ = Absent THEN Undefined ELSE @]

SameTimeline(a, b) ==
    /\ Len(a) = Len(b)
    /\ \A i \in 1..Len(a) : Reads(a[i]) = Reads(b[i])

\* localStorage filled from the exported document
StoreFrom(document) ==
    [chatMessages |-> JsonItem(document.messages),
     userRole |-> JsonItem(document.userRole),
     chatSettings |-> AbsentItem(DefaultSettings)]

ExportedToast == << Toast("success", <<"Chat history exported!">>) >>

----------------------------------------------------------------------------
(* C16: loading never fails and each key is loaded on its own.  After the  *)
(* first render and after every page load, the value of each of the three  *)
(* keys is its default when its entry is missing, cannot be read or is no  *)
(* JSON text, and the stored value otherwise, whatever the entries of the  *)
(* other two keys are: a chatSettings entry that is no JSON leaves the     *)
(* Timeline loaded from chatMessages as it is stored.                      *)

Missing(item) == item.kind = "absent"
CannotBeRead(item) == item.kind = "unreadable"
NoJson(item) == item.kind \in {"garbled", "undefined"}

LoadedAs(value, item, defaultValue) ==
    IF Missing(item) \/ CannotBeRead(item) \/ NoJson(item)
    THEN value = defaultValue
    ELSE value = item.val

Loaded(ms, ur, cs) ==
    /\ LoadedAs(ms, store.chatMessages, <<>>)
    /\ LoadedAs(ur, store.userRole, Null)
    /\ LoadedAs(cs, store.chatSettings, DefaultSettings)

C16_LoadNeverThrows ==
    /\ Loaded(messages, userRole, chatSettings)
    /\ [][ Reload => Loaded(messages', userRole', chatSettings') ]_vars

\* a page loaded the stored Timeline and the stored role next to a
\* chatSettings entry that is no JSON
C16_Witness ==
    /\ ~isOpen
    /\ NoJson(store.chatSettings)
    /\ chatSettings = DefaultSettings
    /\ store.chatMessages.kind = "json"
    /\ messages = store.chatMessages.val
    /\ messages # <<>>
    /\ store.userRole = JsonItem("parent")
    /\ userRole = "parent"

----------------------------------------------------------------------------
(* C17: a save whose storage write fails changes nothing: while setItem    *)
(* throws, a step of the running page leaves the stored entries as they    *)
(* are and leaves the Timeline, the userRole and the settings in memory at *)
(* the values they had before the step.                                    *)
(* The code does not do this: setStoredValue calls setValue(newValue)      *)
(* before setItem, so the value in memory is the new one although nothing  *)
(* was stored.                                                             *)

C17_FailedSaveKeepsMemory ==
    [][ (storageFull /\ ~Reload) =>
          /\ store' = store
          /\ messages' = messages
          /\ userRole' = userRole
          /\ chatSettings' = chatSettings
      ]_vars

----------------------------------------------------------------------------
(* C18: updating the settings merges.  In the step that calls              *)
(* onSettingsChange with a patch, storage accepting writes, each field the *)
(* patch names gets the patch's value, each field it does not name keeps   *)
(* its value, and the entry stored under chatSettings is the JSON text of  *)
(* the merged settings.                                                    *)
(* The code does not do this: onSettingsChange is the setter itself, which *)
(* puts the patch in the place of the settings.                            *)

Merge(settings, patch) ==
    [k \in DOMAIN settings |-> IF patch[k] # Absent THEN patch[k] ELSE settings[k]]

C18_SettingsMerge ==
    [][ \A patch \in SettingsValues :
          (SetChatSettings(patch) /\ ~storageFull) =>
            /\ chatSettings' = Merge(chatSettings, patch)
            /\ store'.chatSettings = JsonItem(Merge(chatSettings, patch))
      ]_vars

----------------------------------------------------------------------------
(* C19: in every reachable state the busy indicator is true if and only if *)
(* at least one sendMessage call has not settled.                          *)
(* The code does not do this once two calls are in flight: the finally     *)
(* block of the call that settles first sets isLoading to false while the  *)
(* other call is still waiting.                                            *)

C19_BusyIffInFlight == isLoading <=> inflight # {}

----------------------------------------------------------------------------
(* C20: the step in which an exchange fails appends one error Message and  *)
(* raises one error toast, both with the text of one failure kind, chosen  *)
(* in the order Timeout, Offline, ServerError, Unknown: the abort timer    *)
(* gives "Request timed out" whatever navigator.onLine says; otherwise     *)
(* navigator.onLine false gives "No internet connection", also when the    *)
(* remote answered with a status that is not ok; otherwise such a status   *)
(* gives "Server error:" with the status and the status text; otherwise    *)
(* the text is the message of the underlying error.                        *)

ServerErrorText(line) ==
    <<"Server error: ", ToString(line.status), " ", line.statusText>>

\* the step fails the exchange e with the description text
FailsWith(e, text) ==
    /\ inflight' = inflight \ {e}
    /\ AppendsOne
    /\ IsErrorMessage(Last(messages'))
    /\ Last(messages').text = text
    /\ notified' = << Toast("error", text) >>
    /\ connectionStatus' = "error"

C20_FailureKind ==
    [][ \A e \in inflight : \A onLine \in BOOLEAN :
          /\ AbortTimerFires(e, onLine) => FailsWith(e, TimedOutText)
          /\ \A line \in StatusLines :
                (~IsOk(line.status) /\ FetchResolves(e, line, onLine)) =>
                   FailsWith(e, IF ~onLine THEN NoInternetText
                                ELSE ServerErrorText(line))
          /\ FetchRejects(e, onLine) =>
                FailsWith(e, IF ~onLine THEN NoInternetText ELSE FailedToFetchText)
          /\ BodyIsNoJson(e, onLine) =>
                FailsWith(e, IF ~onLine THEN NoInternetText ELSE UnexpectedTokenText)
      ]_vars

\* one exchange failed on a status while online, another failed offline
C20_Witness ==
    /\ settled = 2
    /\ \E i, j \in 1..Len(messages) :
          /\ IsErrorMessage(messages[i])
          /\ messages[i].text \in {ServerErrorText(l) : l \in StatusLines}
          /\ IsErrorMessage(messages[j])
          /\ messages[j].text = NoInternetText

----------------------------------------------------------------------------
(* C21: in every reachable state the timestamps of the Timeline do not     *)
(* decrease from one entry to the next, also when two exchanges were in    *)
(* flight at once and their outcomes were appended as they settled.        *)

C21_TimestampsMonotone ==
    \A i, j \in 1..Len(messages) :
        i <= j => messages[i].timestamp <= messages[j].timestamp

\* two messages were sent before either exchange settled, and one of the
\* exchanges has settled later on the clock
C21_Witness ==
    /\ Len(messages) >= 3
    /\ IsUserMessage(messages[Len(messages) - 2])
    /\ IsUserMessage(messages[Len(messages) - 1])
    /\ ~IsUserMessage(Last(messages))
    /\ Last(messages).timestamp > messages[Len(messages) - 1].timestamp
    /\ Cardinality(inflight) = 1

----------------------------------------------------------------------------
(* C22: an online or offline signal of the environment only raises a       *)
(* toast, "Connection restored!" on online and "Connection lost" on        *)
(* offline: the step leaves the connection status, the busy indicator, the *)
(* Timeline, the role, the calls in flight and everything stored as they   *)
(* were.                                                                   *)

RestoredToast == << Toast("success", <<"Connection restored!">>) >>

LostToast == << Toast("error", <<"Connection lost. Please check your internet.">>) >>

OnlyNotifies ==
    UNCHANGED <<connectionStatus, isLoading, messages, role, userRole,
                chatSettings, store, inflight, isOpen, inputValue>>

C22_SignalOnlyNotifies ==
    [][ /\ HandleOnline => notified' = RestoredToast
        /\ HandleOffline => notified' = LostToast
        /\ notified' \in {RestoredToast, LostToast} => OnlyNotifies
      ]_vars

\* the offline signal came while an exchange was in flight
C22_Witness ==
    /\ notified = LostToast
    /\ isLoading
    /\ connectionStatus = "connecting"
    /\ inflight # {}
    /\ Len(messages) >= 2

----------------------------------------------------------------------------
(* C23: no update of the Timeline is lost when sends overlap.  A send      *)
(* issued while another exchange is in flight appends its user Message     *)
(* after everything the Timeline holds; the step that settles one of       *)
(* several exchanges in flight appends its one outcome after everything    *)
(* the Timeline holds, the other exchange's user Message included, and so  *)
(* does the step that settles the last one; and between these steps only   *)
(* clearing, a page load or the greeting change the Timeline.  So two      *)
(* overlapping sends and their two outcomes make the Timeline four entries *)
(* longer, in whichever order the exchanges settle.                        *)

KeepsAndAppendsOne ==
    /\ Len(messages') = Len(messages) + 1
    /\ \A i \in 1..Len(messages) : messages'[i] = messages[i]

C23_NoLostUpdate ==
    [][ /\ (SendStep /\ inflight # {}) =>
              KeepsAndAppendsOne /\ IsUserMessage(Last(messages'))
        /\ (SettleStep /\ Cardinality(inflight) >= 2) =>
              KeepsAndAppendsOne /\ ~IsUserMessage(Last(messages'))
        /\ (SettleStep /\ Cardinality(inflight) = 1) =>
              KeepsAndAppendsOne /\ ~IsUserMessage(Last(messages'))
        /\ (~SendStep /\ ~SettleStep /\ ~ClearChatHistory /\ ~Reload
               /\ ~OpenStep) => messages' = messages
      ]_vars

\* two messages were sent before either exchange settled and both exchanges
\* have settled: the greeting, two user Messages, two outcomes
C23_Witness ==
    /\ settled = 2
    /\ nsent = 2
    /\ inflight = {}
    /\ Len(messages) = 5
    /\ IsWelcomeMessage(messages[1])
    /\ IsUserMessage(messages[2])
    /\ IsUserMessage(messages[3])
    /\ ~IsUserMessage(messages[4])
    /\ ~IsUserMessage(messages[5])

----------------------------------------------------------------------------
(* C24: in every reachable state each reply and each error Message of the  *)
(* Timeline comes after the user Message that was sent for it: up to any   *)
(* entry, the Timeline holds at least as many user Messages as outcomes.   *)
(* The code does not do this when the history is cleared while an exchange *)
(* is in flight: the outcome is appended to the emptied Timeline.          *)

IsOutcome(m) == IsReplyMessage(m) \/ IsErrorMessage(m)

CountUpTo(ms, n, P(_)) == Cardinality({i \in 1..n : P(ms[i])})

C24_OutcomeAfterItsMessage ==
    \A n \in 1..Len(messages) :
        CountUpTo(messages, n, IsOutcome) <= CountUpTo(messages, n, IsUserMessage)

----------------------------------------------------------------------------
(* C25: the reply Message appended when an exchange succeeds carries the   *)
(* text, the detected role and the confidence of the remote's payload as   *)
(* they are, a confidence of 0 included, and has no confidence (null or    *)
(* absent) only when the payload has none.                                 *)
(* The code does not do this: it takes data.confidence || null, and 0 is   *)
(* falsy, so a confidence of 0 becomes null.                               *)

Supplied(v) == v \notin {Undefined, Null, Absent}

C25_ReplyCarriesPayload ==
    [][ \A e \in inflight : \A data \in Payloads :
          BodyParses(e, data) =>
            LET m == Last(messages')
            IN  /\ m.text = data.response
                /\ m.role = data.detected_role
                /\ IF Supplied(data.confidence)
                   THEN m.confidence = data.confidence
                   ELSE ~Supplied(m.confidence)
      ]_vars

====
